---- MODULE Spec2Model ----
(***************************************************************************)
(* Versa ECP5 target of the USB3-PIPE project (versa_ecp5.py): the         *)
(* assembly of USB3SoC (its constructor, section by section), the clock    *)
(* and reset generator _CRG, and the cycle-level behaviour of the signals  *)
(* the constructor wires together.                                         *)
(*                                                                         *)
(* Frequencies are in MHz, periods in ns.                                  *)
(***************************************************************************)
EXTENDS Integers, Sequences, FiniteSets, TLC

VARIABLES
    connector,       \* USB3SoC.__init__ argument
    with_etherbone,  \* USB3SoC.__init__ argument
    with_analyzer,   \* USB3SoC.__init__ argument
    sys_clk_freq,    \* _CRG.__init__ argument (USB3SoC passes 125)
    soc,             \* what the constructor has built so far, and where it is
    cycle,           \* number of sys/por clock edges since power-on
    por_count,       \* _CRG: the 16 bit power-on-reset counter
    sig,             \* value of every modelled signal in the current cycle
    log,             \* payloads transferred so far, per stream endpoint
    analyzer         \* the debug capture buffer

vars == <<connector, with_etherbone, with_analyzer, sys_clk_freq, soc,
          cycle, por_count, sig, log, analyzer>>

cfgVars == <<connector, with_etherbone, with_analyzer, sys_clk_freq>>
runVars == <<cycle, por_count, sig, log, analyzer>>

---------------------------------------------------------------------------
(* Bounds of the model.                                                    *)

\* Reset value of por_count in the model (2**16-1 in the source).
por_count_reset == 3
\* Clock edges a run of the model takes.
MaxCycle == 5
\* Payloads a stream source offers in a run.
MaxItems == 2
\* Depth of the capture buffer in the model (4096 in the source).
AnalyzerDepth == 2
\* Largest divider the PLL search tries.
DivMax == 16
\* Largest sys_clk_freq handed to _CRG in the model.
MaxSysClk == 130

---------------------------------------------------------------------------
(* Platform resources.                                                     *)

\* The extension _usb3_io the target adds to the platform.
usb3_io == {"sma_tx", "sma_rx", "pcie_rx", "pcie_tx"}

\* The resources of the board the constructor asks for.
board_io == {"clk100", "rst_n", "serial", "eth_clocks", "eth",
             "user_led0", "user_led1"}

\* Connector values USB3SoC is called with in the model.
Connectors == {"pcie", "sma", "sfp", "usb"}

Raise(s) == [s EXCEPT !.pc = "error"]

\* platform.request(name): hands out a resource once, raises when the
\* platform has none of that name left.
Request(s, name) ==
    IF name \in (usb3_io \cup board_io) \ s.requested
    THEN [s EXCEPT !.requested = @ \cup {name}]
    ELSE Raise(s)

Failed(s) == s.pc = "error"

\* platform.add_period_constraint(clk, period)
add_period_constraint(s, clk, period) ==
    [s EXCEPT !.constraints = Append(@, <<clk, period>>)]

add_submodule(s, name) == [s EXCEPT !.submodules = Append(@, name)]

add_csr(s, name) == [s EXCEPT !.csr = Append(@, name)]

add_bus_master(s, name) == [s EXCEPT !.bus_masters = Append(@, name)]

Goto(s, pc) == IF Failed(s) THEN s ELSE [s EXCEPT !.pc = pc]

NoPLL == [created |-> FALSE, vco_min |-> 0, vco_max |-> 0, clkin |-> 0,
          clkouts |-> << >>, instance |-> FALSE,
          config |-> [found |-> FALSE]]

\* Nothing built yet; top is the class being constructed.
EmptySoC(top, pc) ==
    [top         |-> top,
     pc          |-> pc,
     base        |-> FALSE,
     submodules  |-> << >>,
     csr         |-> << >>,
     bus_masters |-> << >>,
     requested   |-> {},
     constraints |-> << >>,
     por         |-> FALSE,
     pll         |-> NoPLL,
     serdes      |-> [channel |-> -1, tx_pads |-> "", rx_pads |-> ""],
     analyzer_depth |-> 0]

---------------------------------------------------------------------------
(* _CRG.__init__                                                           *)

vco_freq_min == 400
\* ECP5PLL's own upper VCO limit, which the target overrides.
ECP5PLL_vco_freq_max == 800
vco_freq_max == 1000
clk100_freq == 100
clk250_freq == 250

\* Clk / Rst.
CRG_clk(s) ==
    LET r == Request(s, "clk100") IN
    IF Failed(r) THEN r
    ELSE Goto(add_period_constraint(r, "clk100", 1000 \div clk100_freq), "crg_por")

\* Power On Reset: por_count, por_done and the por clock domain.
CRG_por(s) == Goto([s EXCEPT !.por = TRUE], "crg_pll")

\* PLL
CRG_pll(s, f) ==
    Goto([s EXCEPT !.pll = [created  |-> TRUE,
                            vco_min  |-> vco_freq_min,
                            vco_max  |-> vco_freq_max,
                            clkin    |-> clk100_freq,
                            clkouts  |-> << <<"sys", f>>, <<"clk250", clk250_freq>> >>,
                            instance |-> FALSE,
                            config   |-> [found |-> FALSE]]],
         IF s.top = "_CRG" THEN "assembled" ELSE "UARTBone")

---------------------------------------------------------------------------
(* ECP5PLL: the search for a multiplier configuration, run when the design *)
(* is finalized.  vco = clkin/clki_div*clkfb_div; an output is met by a    *)
(* divider d when |vco/d - f| <= f*margin, margin = 1e-2.  The fractions   *)
(* are cleared so that the arithmetic stays in the integers.               *)

AbsDiff(a, b) == IF a >= b THEN a - b ELSE b - a

vco_ok(p, i, fb) ==
    /\ p.vco_min * i <= p.clkin * fb
    /\ p.clkin * fb <= p.vco_max * i

clko_ok(p, i, fb, d, f) ==
    100 * AbsDiff(p.clkin * fb, f * d * i) <= f * d * i

pair_ok(p, i, fb) ==
    /\ vco_ok(p, i, fb)
    /\ \A n \in 1..Len(p.clkouts) :
          \E d \in 1..DivMax : clko_ok(p, i, fb, d, p.clkouts[n][2])

\* The first divider, counting up, that meets output frequency f.
first_div(p, i, fb, f) ==
    CHOOSE d \in 1..DivMax :
        /\ clko_ok(p, i, fb, d, f)
        /\ \A e \in 1..(d - 1) : ~clko_ok(p, i, fb, e, f)

\* The first (clki_div, clkfb_div), clki_div outermost, whose vco is in
\* range and meets every output; found = FALSE stands for the ValueError.
compute_config(p) ==
    IF \E i \in 1..DivMax, fb \in 1..DivMax : pair_ok(p, i, fb)
    THEN LET i0  == CHOOSE i \in 1..DivMax :
                        /\ \E fb \in 1..DivMax : pair_ok(p, i, fb)
                        /\ \A j \in 1..(i - 1) : \A fb \in 1..DivMax : ~pair_ok(p, j, fb)
             fb0 == CHOOSE fb \in 1..DivMax :
                        /\ pair_ok(p, i0, fb)
                        /\ \A g \in 1..(fb - 1) : ~pair_ok(p, i0, g)
         IN [found     |-> TRUE,
             clki_div  |-> i0,
             clkfb_div |-> fb0,
             clko_div  |-> [n \in 1..Len(p.clkouts) |->
                               first_div(p, i0, fb0, p.clkouts[n][2])]]
    ELSE [found |-> FALSE]

\* ECP5PLL.do_finalize: compute the configuration, then instantiate.
PLL_finalize(s) ==
    LET c == compute_config(s.pll) IN
    IF c.found
    THEN [s EXCEPT !.pll.config = c, !.pll.instance = TRUE, !.pc = "finalized"]
    ELSE [s EXCEPT !.pc = "pll_error"]

---------------------------------------------------------------------------
(* USB3SoC.__init__, one operator per section of the constructor.          *)

\* sys_clk_freq = int(125e6)
USB3SoC_sys_clk_freq == 125

tx_pads(c) == CASE c = "pcie" -> "pcie_tx" [] c = "sma" -> "sma_tx"
                [] c = "sfp" -> "sfp_tx"   [] OTHER     -> "usb_tx"

rx_pads(c) == CASE c = "pcie" -> "pcie_rx" [] c = "sma" -> "sma_rx"
                [] c = "sfp" -> "sfp_rx"   [] OTHER     -> "usb_rx"

SoC_base(s) == Goto([s EXCEPT !.base = TRUE], "crg_clk")

SoC_uartbone(s) ==
    LET r == Request(s, "serial") IN
    IF Failed(r) THEN r
    ELSE Goto(add_bus_master(add_submodule(r, "uartbone"), "uartbone"), "Etherbone")

\* Faulty variant: the Ethernet control is added whatever with_etherbone says.
SoC_etherbone_unconditional(s, eth) ==
    LET r1 == Request(s, "eth_clocks")
        r2 == Request(r1, "eth")
    IN IF Failed(r1) THEN r1
       ELSE IF Failed(r2) THEN r2
       ELSE Goto(add_bus_master(
                     add_submodule(add_submodule(r2, "eth_phy"), "etherbone"),
                     "etherbone"),
                 "SerDes")

SoC_etherbone(s, eth) ==
    IF ~eth THEN Goto(s, "SerDes")
    ELSE LET r1 == Request(s, "eth_clocks")
             r2 == Request(r1, "eth")
         IN IF Failed(r1) THEN r1
            ELSE IF Failed(r2) THEN r2
            ELSE Goto(add_bus_master(
                          add_submodule(add_submodule(r2, "eth_phy"), "etherbone"),
                          "etherbone"),
                      "SerDes")

\* Faulty variant: the pads are those of the PCIe connector whatever connector says.
SoC_serdes_fixed_pads(s, c) ==
    LET r1 == Request(s, "pcie_tx")
        r2 == Request(r1, "pcie_rx")
    IN IF Failed(r1) THEN r1
       ELSE IF Failed(r2) THEN r2
       ELSE Goto(add_submodule(
                     [r2 EXCEPT !.serdes = [channel |-> IF c = "sma" THEN 1 ELSE 0,
                                            tx_pads |-> "pcie_tx",
                                            rx_pads |-> "pcie_rx"]],
                     "usb3_serdes"),
                 "PIPE")

SoC_serdes(s, c) ==
    LET r1 == Request(s, tx_pads(c))
        r2 == Request(r1, rx_pads(c))
    IN IF Failed(r1) THEN r1
       ELSE IF Failed(r2) THEN r2
       ELSE Goto(add_submodule(
                     [r2 EXCEPT !.serdes = [channel |-> IF c = "sma" THEN 1 ELSE 0,
                                            tx_pads |-> tx_pads(c),
                                            rx_pads |-> rx_pads(c)]],
                     "usb3_serdes"),
                 "PIPE")

SoC_pipe(s) ==
    LET r == Request(add_submodule(s, "usb3_pipe"), "rst_n") IN
    IF Failed(r) THEN r ELSE Goto(r, "Core")

SoC_core(s) == Goto(add_csr(add_submodule(s, "usb3_core"), "usb3_core"), "Leds")

SoC_leds(s) ==
    LET r1 == Request(s, "user_led0")
        r2 == Request(r1, "user_led1")
    IN IF Failed(r1) THEN r1
       ELSE IF Failed(r2) THEN r2
       ELSE Goto(r2, "Analyzer")

LiteScopeDepth == 4096

SoC_analyzer(s, an) ==
    IF ~an THEN Goto(s, "assembled")
    ELSE Goto(add_csr(add_submodule([s EXCEPT !.analyzer_depth = LiteScopeDepth],
                                    "analyzer"),
                      "analyzer"),
              "assembled")

\* The whole constructor, run to its end or to the first exception.
USB3SoC(c, eth, an) ==
    LET s1 == SoC_base(EmptySoC("USB3SoC", "SoCMini"))
        s2 == CRG_pll(CRG_por(CRG_clk(s1)), USB3SoC_sys_clk_freq)
        s3 == SoC_etherbone(SoC_uartbone(s2), eth)
        s4 == SoC_serdes(s3, c)
        s5 == IF Failed(s4) THEN s4 ELSE SoC_leds(SoC_core(SoC_pipe(s4)))
    IN IF Failed(s5) THEN s5 ELSE SoC_analyzer(s5, an)

---------------------------------------------------------------------------
(* The assembled design, cycle by cycle.  The subsystems (serializer,      *)
(* link layer, core logic) drive their outputs freely; the target only     *)
(* wires them.                                                             *)

Bit == {FALSE, TRUE}

\* Payloads the subsystems send in the model.
Payload == {0, 1}

\* The environment of the wiring in one cycle: the board's reset button
\* and what the subsystems drive.
InputSet(rst, sr, pr, psv, psd, ckr, csv, csd, pkr) ==
    [rst_n             : rst,
     serdes_ready      : sr,
     pipe_ready        : pr,
     pipe_source_valid : psv,
     pipe_source_data  : psd,
     core_sink_ready   : ckr,
     core_source_valid : csv,
     core_source_data  : csd,
     pipe_sink_ready   : pkr]

\* stream Endpoint.connect: valid and payload run from source to sink,
\* ready runs back from sink to source.
connect(source_valid, source_data, sink_ready) ==
    [source |-> [valid |-> source_valid, data |-> source_data, ready |-> sink_ready],
     sink   |-> [valid |-> source_valid, data |-> source_data, ready |-> sink_ready]]

\* por_done.eq(por_count == 0)
por_done(count) == count = 0

\* usb3_pipe.reset.eq(~platform.request("rst_n"))
usb3_pipe_reset(in) == ~in.rst_n

\* Faulty variant: the inversion is left out.
usb3_core_reset_not_inverted(in) == in.pipe_ready

\* usb3_core.reset.eq(~usb3_pipe.ready)
usb3_core_reset(in) == ~in.pipe_ready

\* platform.request("user_led", 0).eq(~usb3_serdes.ready)
user_led0(in) == ~in.serdes_ready

\* Faulty variant: both LEDs show the serializer.
user_led1_of_serdes(in) == ~in.serdes_ready

\* platform.request("user_led", 1).eq(~usb3_pipe.ready)
user_led1(in) == ~in.pipe_ready

\* Faulty variant: the capture buffer sits in the stream and holds the link layer
\* off while it captures.
pipe_to_core_through_analyzer(in) ==
    [source |-> [valid |-> in.pipe_source_valid, data |-> in.pipe_source_data,
                 ready |-> in.core_sink_ready /\ analyzer.state # "capturing"],
     sink   |-> [valid |-> in.pipe_source_valid, data |-> in.pipe_source_data,
                 ready |-> in.core_sink_ready]]

\* usb3_pipe.source.connect(usb3_core.sink)
pipe_to_core(in) ==
    connect(in.pipe_source_valid, in.pipe_source_data, in.core_sink_ready)

\* Faulty variant: the core's source takes its ready from the core's own
\* sink instead of from the link layer's sink.
core_to_pipe_wrong_ready(in) ==
    [source |-> [valid |-> in.core_source_valid, data |-> in.core_source_data,
                 ready |-> in.core_sink_ready],
     sink   |-> [valid |-> in.core_source_valid, data |-> in.core_source_data,
                 ready |-> in.pipe_sink_ready]]

\* usb3_core.source.connect(usb3_pipe.sink)
core_to_pipe(in) ==
    connect(in.core_source_valid, in.core_source_data, in.pipe_sink_ready)

\* Every combinational statement of the design, evaluated for one cycle.
Comb(in, count) ==
    [rst_n           |-> in.rst_n,
     serdes_ready    |-> in.serdes_ready,
     pipe_ready      |-> in.pipe_ready,
     por_done        |-> por_done(count),
     usb3_pipe_reset |-> usb3_pipe_reset(in),
     usb3_core_reset |-> usb3_core_reset(in),
     user_led0       |-> user_led0(in),
     user_led1       |-> user_led1(in),
     pipe_source     |-> pipe_to_core(in).source,
     core_sink       |-> pipe_to_core(in).sink,
     core_source     |-> core_to_pipe(in).source,
     pipe_sink       |-> core_to_pipe(in).sink]

\* Faulty variant: the counter is not stopped at zero.
por_sync_free_running(count) == (count - 1) % (2^16)

\* self.sync.por += If(~por_done, por_count.eq(por_count - 1)), 16 bits wide
por_sync(count) ==
    IF ~por_done(count) THEN (count - 1) % (2^16) ELSE count

\* What an endpoint has transferred after this cycle's clock edge.
Transfer(l, ep) == IF ep.valid /\ ep.ready THEN Append(l, ep.data) ELSE l

LogStep(l, s) ==
    [pipe_source |-> Transfer(l.pipe_source, s.pipe_source),
     core_sink   |-> Transfer(l.core_sink,   s.core_sink),
     core_source |-> Transfer(l.core_source, s.core_source),
     pipe_sink   |-> Transfer(l.pipe_sink,   s.pipe_sink)]

EmptyLog == [pipe_source |-> << >>, core_sink |-> << >>,
             core_source |-> << >>, pipe_sink |-> << >>]

---------------------------------------------------------------------------
(* LiteScopeAnalyzer: idle -> armed -> capturing -> full, armed and        *)
(* triggered by the host over the control bus and read back through it.    *)

\* Faulty variant: the two streams of the link layer are listed the other way round.
analyzer_signals_swapped(s) ==
    [ready |-> s.pipe_ready, source |-> s.pipe_sink, sink |-> s.pipe_source]

\* analyzer_signals, as far as the signals are modelled: usb3_pipe.ready,
\* usb3_pipe.source, usb3_pipe.sink.
analyzer_signals(s) ==
    [ready |-> s.pipe_ready, source |-> s.pipe_source, sink |-> s.pipe_sink]

NoAnalyzer == [state |-> "absent", mem |-> << >>, rd |-> << >>, first |-> -1]

IdleAnalyzer == [state |-> "idle", mem |-> << >>, rd |-> << >>, first |-> -1]

\* One clock edge of the capture buffer: while capturing, store the sample
\* of the cycle that ends; full once the depth is reached.
Capture(a, s) ==
    IF a.state = "capturing"
    THEN LET m == Append(a.mem, analyzer_signals(s)) IN
         [a EXCEPT !.mem = m,
                   !.state = IF Len(m) >= AnalyzerDepth THEN "full" ELSE "capturing"]
    ELSE a

\* The host arms the capture.
Arm(a) == [a EXCEPT !.state = "armed"]

\* The host's trigger: capture starts with the current cycle c.
Trigger(a, c) == [a EXCEPT !.state = "capturing", !.first = c]

\* The host reads the next sample back.
ReadBack(a) == [a EXCEPT !.rd = Append(@, a.mem[Len(a.rd) + 1])]

---------------------------------------------------------------------------
(* Initial states.                                                         *)

IdleInputs == InputSet({TRUE}, {FALSE}, {FALSE}, {FALSE}, {0}, {FALSE},
                       {FALSE}, {0}, {FALSE})

\* Power-on, before the first clock edge, the subsystems driving in0.
PowerOn(in0) ==
    /\ cycle = 0
    /\ por_count = por_count_reset
    /\ sig = Comb(in0, por_count_reset)
    /\ log = EmptyLog

\* main(): USB3SoC(platform) with the constructor's defaults.
DefaultBuild(an) ==
    /\ connector = "pcie"
    /\ with_etherbone = FALSE
    /\ with_analyzer = an
    /\ sys_clk_freq = USB3SoC_sys_clk_freq
    /\ soc = PLL_finalize(USB3SoC("pcie", FALSE, an))

---------------------------------------------------------------------------
(* Actions of the constructor.                                             *)

Build(pc, next) ==
    /\ soc.pc = pc
    /\ soc' = next
    /\ UNCHANGED <<cfgVars, runVars>>

Do_SoCMini   == Build("SoCMini",   SoC_base(soc))
Do_CRG_clk   == Build("crg_clk",   CRG_clk(soc))
Do_CRG_por   == Build("crg_por",   CRG_por(soc))
Do_CRG_pll   == Build("crg_pll",   CRG_pll(soc, sys_clk_freq))
Do_UARTBone  == Build("UARTBone",  SoC_uartbone(soc))
Do_Etherbone == Build("Etherbone", SoC_etherbone(soc, with_etherbone))
Do_SerDes    == Build("SerDes",    SoC_serdes(soc, connector))
Do_PIPE      == Build("PIPE",      SoC_pipe(soc))
Do_Core      == Build("Core",      SoC_core(soc))
Do_Leds      == Build("Leds",      SoC_leds(soc))
Do_Analyzer  == Build("Analyzer",  SoC_analyzer(soc, with_analyzer))
Finalize     == Build("assembled", PLL_finalize(soc))

---------------------------------------------------------------------------
(* Actions of the running design.                                          *)

\* One edge of the sys/por clock; in is what the environment drives in the
\* cycle that begins.  A stream sets up a transfer only while items remain.
Tick(in) ==
    /\ cycle < MaxCycle
    /\ cycle' = cycle + 1
    /\ por_count' = por_sync(por_count)
    /\ log' = LogStep(log, sig)
    /\ analyzer' = Capture(analyzer, sig)
    /\ sig' = Comb(in, por_count')
    /\ (in.pipe_source_valid /\ in.core_sink_ready)
          => Len(log'.pipe_source) < MaxItems
    /\ (in.core_source_valid /\ in.pipe_sink_ready)
          => Len(log'.core_source) < MaxItems
    /\ UNCHANGED <<cfgVars, soc>>

Host(pre, next) ==
    /\ analyzer.state = pre
    /\ analyzer' = next
    /\ UNCHANGED <<cfgVars, soc, cycle, por_count, sig, log>>

HostArm     == Host("idle", Arm(analyzer))
HostTrigger == Host("armed", Trigger(analyzer, cycle))
HostRead    == /\ Len(analyzer.rd) < Len(analyzer.mem)
               /\ Host("full", ReadBack(analyzer))

---------------------------------------------------------------------------
(* Specifications.                                                         *)

\* Reset and status: the button, the readiness signals and one stream free.
RunInputs == InputSet(Bit, Bit, Bit, Bit, Payload, Bit, {FALSE}, {0}, {TRUE})

Init ==
    /\ DefaultBuild(FALSE)
    /\ analyzer = NoAnalyzer
    /\ \E in0 \in RunInputs : PowerOn(in0)

Next == \E in \in RunInputs : Tick(in)

Spec == Init /\ [][Next]_vars

\* Streams: both connected pairs free.
StreamInputs == InputSet({TRUE}, {TRUE}, Bit, Bit, Payload, Bit, Bit, Payload, Bit)

InitStream ==
    /\ DefaultBuild(FALSE)
    /\ analyzer = NoAnalyzer
    /\ \E in0 \in StreamInputs : PowerOn(in0)

NextStream == \E in \in StreamInputs : Tick(in)

SpecStream == InitStream /\ [][NextStream]_vars

\* Capture: the link layer sends the number of the cycle as payload.
AnalyzerInputs(c) == InputSet(Bit, Bit, Bit, {TRUE}, {c}, Bit, {FALSE}, {0}, {TRUE})

InitAnalyzer ==
    /\ \E an \in Bit :
          /\ DefaultBuild(an)
          /\ analyzer = IF an THEN IdleAnalyzer ELSE NoAnalyzer
    /\ \E in0 \in AnalyzerInputs(0) : PowerOn(in0)

NextAnalyzer ==
    \/ \E in \in AnalyzerInputs(cycle + 1) : Tick(in)
    \/ HostArm
    \/ HostTrigger
    \/ HostRead

SpecAnalyzer == InitAnalyzer /\ [][NextAnalyzer]_vars

\* Assembly: USB3SoC(platform, connector, with_etherbone, with_analyzer).
InitAsm ==
    /\ connector \in Connectors
    /\ with_etherbone \in Bit
    /\ with_analyzer \in Bit
    /\ sys_clk_freq = USB3SoC_sys_clk_freq
    /\ soc = EmptySoC("USB3SoC", "SoCMini")
    /\ analyzer = NoAnalyzer
    /\ \E in0 \in IdleInputs : PowerOn(in0)

NextAsm ==
    \/ Do_SoCMini
    \/ Do_CRG_clk
    \/ Do_CRG_por
    \/ Do_CRG_pll
    \/ Do_UARTBone
    \/ Do_Etherbone
    \/ Do_SerDes
    \/ Do_PIPE
    \/ Do_Core
    \/ Do_Leds
    \/ Do_Analyzer
    \/ Finalize

SpecAsm == InitAsm /\ [][NextAsm]_vars

\* Clocking: _CRG(platform, sys_clk_freq) on its own.
InitCRG ==
    /\ connector = "pcie"
    /\ with_etherbone = FALSE
    /\ with_analyzer = FALSE
    /\ sys_clk_freq \in 1..MaxSysClk
    /\ soc = EmptySoC("_CRG", "crg_clk")
    /\ analyzer = NoAnalyzer
    /\ \E in0 \in IdleInputs : PowerOn(in0)

NextCRG ==
    \/ Do_CRG_clk
    \/ Do_CRG_por
    \/ Do_CRG_pll
    \/ Finalize

SpecCRG == InitCRG /\ [][NextCRG]_vars

---------------------------------------------------------------------------
(* Properties.                                                             *)

Count(seq, x) == Cardinality({k \in 1..Len(seq) : seq[k] = x})

Range(seq) == {seq[k] : k \in 1..Len(seq)}

\* C1: with the counter starting at C = por_count_reset at cycle 0, por_done
\* is false in cycles 0..C-1 and true in every cycle from C on, and the
\* counter, having reached 0, stays 0 (it never wraps to 2^16-1).
C1_PorDone ==
    /\ sig.por_done = (cycle >= por_count_reset)
    /\ por_count = IF cycle < por_count_reset THEN por_count_reset - cycle ELSE 0

C1_Witness ==
    /\ cycle = por_count_reset + 1
    /\ sig.por_done
    /\ por_count = 0

\* C3: no subsystem is out of reset while por_done is false: the link layer
\* and the core logic are held in reset until the power-on-reset sequencer
\* reports done.
C3_ResetHeldUntilPorDone ==
    ~sig.por_done => (sig.usb3_pipe_reset /\ sig.usb3_core_reset)

\* C6: LED1 (user_led 0) is NOT serializer-ready and LED2 (user_led 1) is
\* NOT link-ready, whatever the two readiness signals, the reset button and
\* the streams do.
C6_Leds ==
    /\ sig.user_led0 = ~sig.serdes_ready
    /\ sig.user_led1 = ~sig.pipe_ready

C6_Witness ==
    /\ cycle > 0
    /\ sig.serdes_ready /\ ~sig.pipe_ready
    /\ ~sig.user_led0 /\ sig.user_led1
    /\ ~sig.rst_n

\* C10, as amended: in every cycle the core-logic reset is NOT link-layer
\* ready, and the link-layer reset is NOT rst_n, the board's reset input.
C10_ResetChain ==
    /\ sig.usb3_core_reset = ~sig.pipe_ready
    /\ sig.usb3_pipe_reset = ~sig.rst_n

C10_Witness ==
    /\ cycle > 0
    /\ sig.serdes_ready /\ ~sig.rst_n /\ sig.usb3_pipe_reset
    /\ sig.pipe_ready /\ ~sig.usb3_core_reset

\* C10, as claimed: in every cycle the core-logic reset is NOT link-layer
\* ready, and the link-layer reset derives from the serializer's status: it
\* does not change from one cycle to the next unless serializer-ready does.
C10_Original ==
    [][/\ sig'.usb3_core_reset = ~sig'.pipe_ready
       /\ (sig'.serdes_ready = sig.serdes_ready
             => sig'.usb3_pipe_reset = sig.usb3_pipe_reset)]_vars

\* The sink of each pair has received what its source has sent, in order.
C2_LogsAgree ==
    /\ log.core_sink = log.pipe_source
    /\ log.pipe_sink = log.core_source

\* An endpoint's transfers grow only in a cycle where the source drives
\* valid and the sink drives ready, by the payload driven in that cycle.
C2_NoIdleTransfer ==
    /\ \A e \in {"pipe_source", "core_sink"} :
          log'[e] # log[e] =>
              /\ sig.pipe_source.valid /\ sig.core_sink.ready
              /\ log'[e] = Append(log[e], sig.pipe_source.data)
    /\ \A e \in {"core_source", "pipe_sink"} :
          log'[e] # log[e] =>
              /\ sig.core_source.valid /\ sig.pipe_sink.ready
              /\ log'[e] = Append(log[e], sig.core_source.data)

\* C2: on both connected pairs the sink has received exactly the payloads
\* the source has sent, in the same order, and an endpoint's count of
\* transfers grows only in a cycle where the source drives valid and the
\* sink drives ready, by the payload the source drives in that cycle.
C2_Streams == [](C2_LogsAgree) /\ [][C2_NoIdleTransfer]_vars

C2_Witness ==
    /\ Len(log.core_sink) = 2 /\ log.core_sink[1] # log.core_sink[2]
    /\ Len(log.pipe_sink) = 2 /\ log.pipe_sink[1] # log.pipe_sink[2]
    /\ cycle > 3

Supported == {"pcie", "sma"}

USB3Subsystems == {"usb3_serdes", "usb3_pipe", "usb3_core", "analyzer"}

\* C4, as claimed: when the unsupported connector raises, nothing has been
\* created: no SoC base, no clock/reset generator, no UART bridge, no
\* Ethernet control, no serializer, link layer or core logic.
C4_Original ==
    soc.pc = "error" =>
        /\ ~soc.base
        /\ ~soc.por /\ ~soc.pll.created
        /\ soc.submodules = << >>
        /\ soc.bus_masters = << >>

\* C4, as amended: an unsupported connector raises, and the constructor
\* never completes; when it raises, the serializer, the link layer, the
\* core logic and the debug capture have not been created and no control
\* register is allocated, while the SoC base, the clock/reset generator,
\* the UART bridge and, with with_etherbone, the Ethernet control have.
C4_RaisesBeforeUSB3 ==
    /\ soc.pc = "error" =>
          /\ connector \notin Supported
          /\ Range(soc.submodules) \cap USB3Subsystems = {}
          /\ soc.csr = << >>
          /\ soc.serdes.channel = -1
          /\ soc.base /\ soc.por /\ soc.pll.created
          /\ soc.submodules = IF with_etherbone
                              THEN <<"uartbone", "eth_phy", "etherbone">>
                              ELSE <<"uartbone">>
    /\ connector \notin Supported =>
          soc.pc \in {"SoCMini", "crg_clk", "crg_por", "crg_pll", "UARTBone",
                      "Etherbone", "SerDes", "error"}

C4_Witness ==
    /\ soc.pc = "error"
    /\ connector = "sfp"
    /\ with_etherbone
    /\ with_analyzer

\* C5: a constructor that completes has created the serializer, the link
\* layer and the core logic, the Ethernet control and its one bus master
\* exactly when with_etherbone, and the debug capture (depth 4096) and its
\* control registers exactly when with_analyzer; nothing is created twice.
C5_ExactSubsystems ==
    soc.pc \in {"assembled", "finalized"} =>
        /\ connector \in Supported
        /\ Range(soc.submodules) =
              {"uartbone", "usb3_serdes", "usb3_pipe", "usb3_core"}
              \cup (IF with_etherbone THEN {"eth_phy", "etherbone"} ELSE {})
              \cup (IF with_analyzer THEN {"analyzer"} ELSE {})
        /\ \A m \in Range(soc.submodules) : Count(soc.submodules, m) = 1
        /\ Count(soc.bus_masters, "etherbone") = IF with_etherbone THEN 1 ELSE 0
        /\ Len(soc.bus_masters) = IF with_etherbone THEN 2 ELSE 1
        /\ soc.csr = IF with_analyzer THEN <<"usb3_core", "analyzer">>
                                      ELSE <<"usb3_core">>
        /\ soc.analyzer_depth = IF with_analyzer THEN 4096 ELSE 0
        /\ soc.serdes = IF connector = "sma"
                        THEN [channel |-> 1, tx_pads |-> "sma_tx", rx_pads |-> "sma_rx"]
                        ELSE [channel |-> 0, tx_pads |-> "pcie_tx", rx_pads |-> "pcie_rx"]

C5_Witness ==
    /\ soc.pc = "assembled"
    /\ connector = "sma"
    /\ with_etherbone
    /\ ~with_analyzer
    /\ Len(soc.submodules) = 6

\* A multiplier configuration (i, fb) with the dividers ds is valid for the
\* 100 MHz reference, the outputs sys_clk_freq and 250 MHz and the VCO
\* range 400..1000 MHz.
ValidFor(i, fb, d1, d2) ==
    /\ 400 * i <= 100 * fb /\ 100 * fb <= 1000 * i
    /\ 100 * AbsDiff(100 * fb, sys_clk_freq * d1 * i) <= sys_clk_freq * d1 * i
    /\ 100 * AbsDiff(100 * fb, 250 * d2 * i) <= 250 * d2 * i

Achievable ==
    \E i \in 1..DivMax, fb \in 1..DivMax, d1 \in 1..DivMax, d2 \in 1..DivMax :
        ValidFor(i, fb, d1, d2)

\* The frequencies are validated when the design is finalized: a set no
\* configuration produces fails before the PLL is instantiated, one that a
\* configuration produces gets a valid one, and 125 and 250 MHz is such a set.
C7_Validated ==
    /\ soc.pc = "pll_error" => (~soc.pll.instance /\ ~Achievable)
    /\ soc.pc = "finalized" =>
          /\ soc.pll.instance
          /\ ValidFor(soc.pll.config.clki_div, soc.pll.config.clkfb_div,
                      soc.pll.config.clko_div[1], soc.pll.config.clko_div[2])
    /\ sys_clk_freq = 125 => soc.pc # "pll_error"

C7_WitnessUnachievable ==
    /\ soc.pc = "pll_error"
    /\ sys_clk_freq = 130

\* C8: the capture buffer is idle, armed, capturing or full; it holds
\* nothing before the trigger; while capturing it holds one sample per
\* cycle since the trigger and fewer than the depth; it is full with
\* exactly the depth; sample k is the signals' value in the k-th cycle from
\* the trigger (the link layer's payload there is the number of the cycle);
\* and what has been read back is the stored samples, in order.
C8_Capture ==
    with_analyzer =>
        /\ analyzer.state \in {"idle", "armed", "capturing", "full"}
        /\ analyzer.state \in {"idle", "armed"} =>
              (analyzer.mem = << >> /\ analyzer.first = -1)
        /\ analyzer.state = "capturing" =>
              /\ analyzer.first >= 0
              /\ Len(analyzer.mem) = cycle - analyzer.first
              /\ Len(analyzer.mem) < AnalyzerDepth
        /\ analyzer.state = "full" =>
              /\ Len(analyzer.mem) = AnalyzerDepth
              /\ cycle >= analyzer.first + AnalyzerDepth
        /\ \A k \in 1..Len(analyzer.mem) :
              /\ analyzer.mem[k].source.valid
              /\ analyzer.mem[k].source.data = analyzer.first + k - 1
              /\ ~analyzer.mem[k].sink.valid
        /\ Len(analyzer.rd) <= Len(analyzer.mem)
        /\ analyzer.rd = SubSeq(analyzer.mem, 1, Len(analyzer.rd))
        /\ analyzer.state # "full" => analyzer.rd = << >>

C8_Witness ==
    /\ analyzer.state = "full"
    /\ analyzer.first > 0
    /\ Len(analyzer.rd) = 2
    /\ analyzer.rd[1].source.data = analyzer.first
    /\ analyzer.rd[2].source.data = analyzer.first + 1
    /\ analyzer.rd[1].ready # analyzer.rd[2].ready

\* Every observed signal as the target wires it; the capture buffer does
\* not occur.
C9_SignalsAsWired ==
    /\ sig.por_done = (cycle >= por_count_reset)
    /\ sig.usb3_pipe_reset = ~sig.rst_n
    /\ sig.usb3_core_reset = ~sig.pipe_ready
    /\ sig.user_led0 = ~sig.serdes_ready
    /\ sig.user_led1 = ~sig.pipe_ready
    /\ sig.pipe_source = sig.core_sink
    /\ sig.core_source = sig.pipe_sink
    /\ sig.pipe_source.valid /\ sig.pipe_source.data = cycle
    /\ ~sig.core_source.valid /\ sig.pipe_sink.ready
    /\ log.pipe_source = log.core_sink

\* A step of the host on the capture buffer leaves the design alone.
C9_HostFrame ==
    (cycle' = cycle /\ analyzer' # analyzer)
        => UNCHANGED <<sig, por_count, log, soc>>

\* C9: with the debug capture present or absent, and in whatever state it
\* is, every observed signal is the same function of what the board and
\* the subsystems drive and of the number of the cycle; and a step of the
\* host on the capture buffer (arm, trigger, read-back) changes none.
C9_PureObserver == [](C9_SignalsAsWired) /\ [][C9_HostFrame]_vars

C9_Witness ==
    /\ with_analyzer
    /\ analyzer.state = "full"
    /\ Len(analyzer.rd) = 1
    /\ sig.core_sink.ready
    /\ Len(log.core_sink) = 1

====
